---- MODULE Spec2Model ----
(***************************************************************************)
(* Model of the PetOne locations API (server.js): a file-backed,           *)
(* multi-tenant store of pet locations and tracking devices.               *)
(*                                                                         *)
(* Seven specifications share the definitions below.  In the first five    *)
(* every request runs to completion before the next starts: one action     *)
(* per route, modelling the whole handler (requireAuth, readData,          *)
(* getTenant, the route, writeData).                                       *)
(*   Spec         one tenant's clients of the location routes              *)
(*   SpecDev      one tenant's clients of the device routes                *)
(*   SpecTenants  clients of several tenants, with every credential        *)
(*   SpecErrors   one tenant's requests that may be refused (400, 404)     *)
(*   SpecLegacy   the server started on a file of the legacy shape         *)
(*   SpecSave     one request at a time, step by step; the write of the    *)
(*                temporary file and the rename may be rejected            *)
(*   SpecConc     two requests interleave at the handler's await points; a *)
(*                writeFile is an open followed by a write, and an open    *)
(*                file follows its inode through a rename.                 *)
(*                                                                         *)
(* JSON values: an absent key and a key holding undefined are both Undef   *)
(* (JSON.stringify drops undefined), null is Null.  Location fields that   *)
(* no branch of the code reads (latitude, longitude, accuracy, speed,      *)
(* createdBy) are left out; label stands for a plain payload field.        *)
(***************************************************************************)
EXTENDS Integers, Sequences, FiniteSets, TLC

\* ---------------------------------------------------------------- bounds
MaxClock == 1      \* Date.now() takes the values 0..MaxClock
MaxLocs == 2       \* locations held by the whole store

\* ------------------------------------------------------------ JSON values
Undef == "undefined"
Null == "null"
NoTime == -1

\* JS truthiness of a string-or-absent value: !v
Truthy(v) == v \notin {Undef, Null, ""}

\* String(v): String(undefined) = "undefined", String(null) = "null"
String(v) == IF v = Undef THEN "undefined" ELSE IF v = Null THEN "null" ELSE v

DefaultTenant == "default"
Uids == {"u1", "u2"}
TenantIds == Uids \cup {DefaultTenant}

\* Credentials of a request: no Authorization header, a bearer token that
\* verifies to a uid, a bearer token whose verification throws.
NoCred == "none"
BadToken == "bad"
Creds == {NoCred, BadToken} \cup Uids

\* Math.random().toString(36).slice(2, 8): the suffixes genId draws from
Rnd == {"r1", "r2"}

\* The one suffix drawn where no route compares generated ids
OneRnd == {"r1"}

EmptyTenant == [locations |-> <<>>, devices |-> <<>>]

\* ----------------------------------------------------------- the file
\* Content of a file: the text of JSON.stringify(...), by what it parses to.
Absent == [kind |-> "absent", locations |-> <<>>, tenants |-> <<>>]
Partial == [kind |-> "partial", locations |-> <<>>, tenants |-> <<>>]

\* JSON.stringify({ locations: [] }, null, 2)
LegacyFile(locs) == [kind |-> "legacy", locations |-> locs, tenants |-> <<>>]

\* JSON.stringify(data, null, 2) of a store { tenants: ... }
Serialize(data) == [kind |-> "tenants", locations |-> <<>>, tenants |-> data]

\* ensureDataFile, run to completion: the content the file has afterwards
ensureDataFile(f) == IF f.kind = "absent" THEN LegacyFile(<<>>) ELSE f

\* A parse without the legacy branch: { locations: [...] } has no tenants
ParseWithoutMigration(raw) ==
  CASE raw.kind = "tenants" -> raw.tenants
    [] OTHER -> <<>>

\* readData's parse of the text read: the in-memory tenants map
Parse(raw) ==
  CASE raw.kind = "legacy" ->
         [u \in {DefaultTenant} |-> [locations |-> raw.locations, devices |-> <<>>]]
    [] raw.kind = "tenants" -> raw.tenants
    [] OTHER -> <<>>

\* getTenant that starts the tenants map afresh for the caller
getTenantOnlyCaller(data, uid) ==
  [u \in {uid} |-> IF uid \in DOMAIN data THEN data[uid] ELSE EmptyTenant]

\* getTenant: the tenants map with an empty tenant added for a new uid
getTenant(data, uid) ==
  IF uid \in DOMAIN data THEN data
  ELSE [u \in DOMAIN data \cup {uid} |-> IF u = uid THEN EmptyTenant ELSE data[u]]

\* data with tenant uid replaced by t (the handler mutates the tenant object
\* that getTenant returned, which is part of data)
WithTenant(data, uid, t) == [data EXCEPT ![uid] = t]

TotalLocs(data) ==
  LET RECURSIVE Sum(_)
      Sum(S) == IF S = {} THEN 0
                ELSE LET u == CHOOSE x \in S : TRUE
                     IN Len(data[u].locations) + Sum(S \ {u})
  IN Sum(DOMAIN data)

\* ------------------------------------------------------------- records
\* A stored location
Loc(id, petId, label, uid, origin, createdAt, updatedAt) ==
  [id |-> id, petId |-> petId, label |-> label, uid |-> uid, origin |-> origin,
   createdAt |-> createdAt, updatedAt |-> updatedAt]

NoLoc == Loc(Undef, Undef, Undef, Undef, Undef, NoTime, NoTime)

\* A stored device
Dev(petId, code, deviceId, name, createdAt, updatedAt) ==
  [petId |-> petId, code |-> code, deviceId |-> deviceId, name |-> name,
   createdAt |-> createdAt, updatedAt |-> updatedAt]

NoDev == Dev(Undef, Undef, Undef, Undef, NoTime, NoTime)

\* A request: the route and what its body, path and query string carry
Req(op, id, petId, label, uid, code, deviceId, name) ==
  [op |-> op, id |-> id, petId |-> petId, label |-> label, uid |-> uid,
   code |-> code, deviceId |-> deviceId, name |-> name]

NoReq == Req("none", Undef, Undef, Undef, Undef, Undef, Undef, Undef)

\* What a route hands back: the store in memory, whether writeData is called,
\* and the response (status and body)
Result(data, save, status, loc, dev, list, devs, count) ==
  [data |-> data, save |-> save, status |-> status, loc |-> loc, dev |-> dev,
   list |-> list, devs |-> devs, count |-> count]

\* `loc_${ts}_${rnd}`
genId(ts, rnd) == "loc_" \o ToString(ts) \o "_" \o rnd

\* ------------------------------------------------------------- helpers
\* tenant.locations.findIndex((l) => l.id === id), 1-based; 0: not found
FirstLoc(locs, id) ==
  IF \E i \in 1..Len(locs) : locs[i].id = id
  THEN CHOOSE i \in 1..Len(locs) :
         locs[i].id = id /\ \A j \in 1..(i - 1) : locs[j].id # id
  ELSE 0

\* A match that looks at the code alone
DevMatchesCodeOnly(d, code, deviceId) ==
  Truthy(code) /\ d.code = code

\* (code && d.code === code) || (deviceId && d.deviceId === deviceId)
DevMatches(d, code, deviceId) ==
  (Truthy(code) /\ d.code = code) \/ (Truthy(deviceId) /\ d.deviceId = deviceId)

\* tenant.devices.findIndex(d => match), 1-based; 0: not found
FirstDev(devs, code, deviceId) ==
  IF \E i \in 1..Len(devs) : DevMatches(devs[i], code, deviceId)
  THEN CHOOSE i \in 1..Len(devs) :
         /\ DevMatches(devs[i], code, deviceId)
         /\ \A j \in 1..(i - 1) : ~DevMatches(devs[j], code, deviceId)
  ELSE 0

\* tenant.locations.filter((l) => String(l.petId) === String(petId))
LocsOfPet(locs, petId) ==
  LET Keep(l) == String(l.petId) = String(petId) IN SelectSeq(locs, Keep)

\* tenant.locations.filter((l) => String(l.petId) !== String(petId))
LocsNotOfPet(locs, petId) ==
  LET Keep(l) == String(l.petId) # String(petId) IN SelectSeq(locs, Keep)

\* tenant.locations.filter((l) => l.id !== id)
LocsWithoutId(locs, id) ==
  LET Keep(l) == l.id # id IN SelectSeq(locs, Keep)

\* tenant.devices.filter(d => !match)
DevsNotMatching(devs, code, deviceId) ==
  LET Keep(d) == ~DevMatches(d, code, deviceId) IN SelectSeq(devs, Keep)

\* --------------------------------------------------------- requireAuth
\* [ok, uid, auth]: whether a tenant was resolved, which, and AUTH_ENABLED after
requireAuth(auth, cred) ==
  IF ~auth THEN [ok |-> TRUE, uid |-> DefaultTenant, auth |-> auth]
  ELSE IF cred = NoCred THEN [ok |-> FALSE, uid |-> Undef, auth |-> auth]
  ELSE IF cred \in Uids THEN [ok |-> TRUE, uid |-> cred, auth |-> auth]
  ELSE [ok |-> TRUE, uid |-> DefaultTenant, auth |-> FALSE]

\* -------------------------------------------------------- the routes
\* Each route is given the store in memory after getTenant(data, uid).

\* GET /localizacao/:petId
query(data, uid, req) ==
  Result(data, FALSE, 200, NoLoc, NoDev,
         LocsOfPet(data[uid].locations, req.petId), <<>>, 0)

\* An upsert that takes the uid of the payload when it carries one
upsertPayloadUid(data, uid, req, now, gid) ==
  LET tenant == data[uid]
      id == IF Truthy(req.id) THEN req.id ELSE gid
      owner == IF req.uid # Undef THEN req.uid ELSE uid
      idx == FirstLoc(tenant.locations, id)
  IN IF idx > 0
     THEN LET old == tenant.locations[idx]
              merged == Loc(id,
                            IF req.petId # Undef THEN req.petId ELSE old.petId,
                            IF req.label # Undef THEN req.label ELSE old.label,
                            owner, old.origin, old.createdAt, now)
          IN Result(WithTenant(data, uid,
                               [tenant EXCEPT !.locations[idx] = merged]),
                    TRUE, 200, merged, NoDev, <<>>, <<>>, 0)
     ELSE LET loc == Loc(id, req.petId, req.label, owner, Undef, now, NoTime)
          IN Result(WithTenant(data, uid,
                               [tenant EXCEPT !.locations = Append(@, loc)]),
                    TRUE, 201, loc, NoDev, <<>>, <<>>, 0)

\* An upsert whose update keeps the stored values: { ...loc, ...old }
upsertOldWins(data, uid, req, now, gid) ==
  LET tenant == data[uid]
      id == IF Truthy(req.id) THEN req.id ELSE gid
      idx == FirstLoc(tenant.locations, id)
  IN IF idx > 0
     THEN LET old == tenant.locations[idx]
              merged == [old EXCEPT !.updatedAt = now]
          IN Result(WithTenant(data, uid,
                               [tenant EXCEPT !.locations[idx] = merged]),
                    TRUE, 200, merged, NoDev, <<>>, <<>>, 0)
     ELSE LET loc == Loc(id, req.petId, req.label, uid, Undef, now, NoTime)
          IN Result(WithTenant(data, uid,
                               [tenant EXCEPT !.locations = Append(@, loc)]),
                    TRUE, 201, loc, NoDev, <<>>, <<>>, 0)

\* POST /localizacao; gid is what genId() returns if it is called
upsert(data, uid, req, now, gid) ==
  LET tenant == data[uid]
      id == IF Truthy(req.id) THEN req.id ELSE gid
      idx == FirstLoc(tenant.locations, id)
  IN IF idx > 0
     THEN LET old == tenant.locations[idx]
              \* { ...tenant.locations[idx], ...loc, updatedAt: now }
              merged == Loc(id,
                            IF req.petId # Undef THEN req.petId ELSE old.petId,
                            IF req.label # Undef THEN req.label ELSE old.label,
                            uid, old.origin, old.createdAt, now)
          IN Result(WithTenant(data, uid,
                               [tenant EXCEPT !.locations[idx] = merged]),
                    TRUE, 200, merged, NoDev, <<>>, <<>>, 0)
     ELSE LET loc == Loc(id, req.petId, req.label, uid, Undef, now, NoTime)
          IN Result(WithTenant(data, uid,
                               [tenant EXCEPT !.locations = Append(@, loc)]),
                    TRUE, 201, loc, NoDev, <<>>, <<>>, 0)

\* A resolution that passes over detached devices: the pet of the first
\* matching device that has one
resolveSkippingDetached(tenant, code, deviceId) ==
  LET Attached(d) == DevMatches(d, code, deviceId) /\ Truthy(d.petId)
      found == SelectSeq(tenant.devices, Attached)
  IN IF Len(found) > 0 THEN found[1].petId ELSE Undef

\* resolvePetIdByIdentifier: found?.petId
resolvePetIdByIdentifier(tenant, code, deviceId) ==
  LET idx == FirstDev(tenant.devices, code, deviceId)
  IN IF idx > 0 THEN tenant.devices[idx].petId ELSE Undef

\* An ingest that would overwrite a stored location carrying the generated
\* id instead of pushing
ingestUpdatingById(data, uid, req, now, gid) ==
  LET tenant == data[uid]
      petId == resolvePetIdByIdentifier(tenant, req.code, req.deviceId)
  IN IF ~Truthy(req.code) /\ ~Truthy(req.deviceId)
     THEN Result(data, FALSE, 400, NoLoc, NoDev, <<>>, <<>>, 0)
     ELSE IF ~Truthy(petId)
     THEN Result(data, FALSE, 404, NoLoc, NoDev, <<>>, <<>>, 0)
     ELSE LET loc == Loc(gid, petId,
                         IF Truthy(req.label) THEN req.label ELSE "device",
                         uid, "device", now, NoTime)
              idx == FirstLoc(tenant.locations, gid)
          IN Result(WithTenant(data, uid,
                               IF idx > 0
                               THEN [tenant EXCEPT !.locations[idx] = loc]
                               ELSE [tenant EXCEPT !.locations = Append(@, loc)]),
                    TRUE, 201, loc, NoDev, <<>>, <<>>, 0)

\* POST /locations/ingest
ingest(data, uid, req, now, gid) ==
  LET tenant == data[uid]
      petId == resolvePetIdByIdentifier(tenant, req.code, req.deviceId)
  IN IF ~Truthy(req.code) /\ ~Truthy(req.deviceId)
     THEN Result(data, FALSE, 400, NoLoc, NoDev, <<>>, <<>>, 0)
     ELSE IF ~Truthy(petId)
     THEN Result(data, FALSE, 404, NoLoc, NoDev, <<>>, <<>>, 0)
     ELSE LET loc == Loc(gid, petId,
                         IF Truthy(req.label) THEN req.label ELSE "device",
                         uid, "device", now, NoTime)
          IN Result(WithTenant(data, uid,
                               [tenant EXCEPT !.locations = Append(@, loc)]),
                    TRUE, 201, loc, NoDev, <<>>, <<>>, 0)

\* upsertDevice: [tenant, dev]: the tenant afterwards and the record returned
upsertDevice(tenant, req, now) ==
  LET idx == FirstDev(tenant.devices, req.code, req.deviceId)
  IN IF idx > 0
     THEN LET old == tenant.devices[idx]
              \* { ...tenant.devices[idx], ...dev }: dev holds all five keys
              merged == Dev(req.petId, req.code, req.deviceId, req.name,
                            old.createdAt, now)
          IN [tenant |-> [tenant EXCEPT !.devices[idx] = merged],
              dev |-> merged]
     ELSE [tenant |-> [tenant EXCEPT !.devices =
                         Append(@, Dev(req.petId, req.code, req.deviceId,
                                       req.name, now, now))],
           \* return dev: the record built before createdAt was added
           dev |-> Dev(req.petId, req.code, req.deviceId, req.name, NoTime, now)]

\* POST /devices/register
register(data, uid, req, now) ==
  IF ~Truthy(req.petId)
  THEN Result(data, FALSE, 400, NoLoc, NoDev, <<>>, <<>>, 0)
  ELSE IF ~Truthy(req.code) /\ ~Truthy(req.deviceId)
  THEN Result(data, FALSE, 400, NoLoc, NoDev, <<>>, <<>>, 0)
  ELSE LET r == upsertDevice(data[uid], req, now)
       IN Result(WithTenant(data, uid, r.tenant), TRUE, 201, NoLoc, r.dev,
                 <<>>, <<>>, 0)

\* GET /devices
listDevices(data, uid) ==
  Result(data, FALSE, 200, NoLoc, NoDev, <<>>, data[uid].devices, 0)

\* POST /devices/detach
detach(data, uid, req, now) ==
  LET tenant == data[uid]
      idx == FirstDev(tenant.devices, req.code, req.deviceId)
  IN IF ~Truthy(req.code) /\ ~Truthy(req.deviceId)
     THEN Result(data, FALSE, 400, NoLoc, NoDev, <<>>, <<>>, 0)
     ELSE IF idx = 0
     THEN Result(data, FALSE, 404, NoLoc, NoDev, <<>>, <<>>, 0)
     ELSE LET d == [tenant.devices[idx] EXCEPT !.petId = Null, !.updatedAt = now]
          IN Result(WithTenant(data, uid, [tenant EXCEPT !.devices[idx] = d]),
                    TRUE, 200, NoLoc, d, <<>>, <<>>, 0)

\* DELETE /devices
deleteDevice(data, uid, req) ==
  LET tenant == data[uid]
      kept == DevsNotMatching(tenant.devices, req.code, req.deviceId)
      deleted == Len(tenant.devices) - Len(kept)
  IN IF ~Truthy(req.code) /\ ~Truthy(req.deviceId)
     THEN Result(data, FALSE, 400, NoLoc, NoDev, <<>>, <<>>, 0)
     ELSE IF deleted = 0
     THEN Result(data, FALSE, 404, NoLoc, NoDev, <<>>, <<>>, 0)
     ELSE Result(WithTenant(data, uid, [tenant EXCEPT !.devices = kept]),
                 TRUE, 200, NoLoc, NoDev, <<>>, <<>>, deleted)

\* A delete by id that saves the filtered list before it looks at its length
deleteByIdSavingFirst(data, uid, req) ==
  LET tenant == data[uid]
      kept == LocsWithoutId(tenant.locations, req.id)
  IN Result(WithTenant(data, uid, [tenant EXCEPT !.locations = kept]), TRUE,
            IF Len(kept) = Len(tenant.locations) THEN 404 ELSE 200,
            NoLoc, NoDev, <<>>, <<>>, 0)

\* DELETE /localizacao/:id
deleteById(data, uid, req) ==
  LET tenant == data[uid]
      kept == LocsWithoutId(tenant.locations, req.id)
  IN IF Len(kept) = Len(tenant.locations)
     THEN Result(data, FALSE, 404, NoLoc, NoDev, <<>>, <<>>, 0)
     ELSE Result(WithTenant(data, uid, [tenant EXCEPT !.locations = kept]),
                 TRUE, 200, NoLoc, NoDev, <<>>, <<>>, 0)

\* DELETE /localizacao?petId=...; req.petId is url.searchParams.get('petId'),
\* Null when the parameter is not given
deleteByScope(data, uid, req) ==
  LET tenant == data[uid]
      kept == IF Truthy(req.petId)
              THEN LocsNotOfPet(tenant.locations, req.petId)
              ELSE <<>>
  IN Result(WithTenant(data, uid, [tenant EXCEPT !.locations = kept]),
            TRUE, 200, NoLoc, NoDev, <<>>, <<>>,
            Len(tenant.locations) - Len(kept))

\* The route table of the request handler
Route(data, uid, req, now, gid) ==
  CASE req.op = "query" -> query(data, uid, req)
    [] req.op = "upsert" -> upsert(data, uid, req, now, gid)
    [] req.op = "ingest" -> ingest(data, uid, req, now, gid)
    [] req.op = "register" -> register(data, uid, req, now)
    [] req.op = "listDevices" -> listDevices(data, uid)
    [] req.op = "detach" -> detach(data, uid, req, now)
    [] req.op = "deleteDevice" -> deleteDevice(data, uid, req)
    [] req.op = "deleteById" -> deleteById(data, uid, req)
    [] req.op = "deleteByScope" -> deleteByScope(data, uid, req)

\* ------------------------------------------------------------ the state
VARIABLES
  file,          \* content of storage/locations.json (DATA_FILE)
  tmp,           \* content of storage/locations.json.tmp
  AUTH_ENABLED,  \* the process-wide flag
  clock,         \* Date.now()
  last,          \* the request just handled and its response, until delivered
  procs          \* SpecConc: the requests in flight

vars == <<file, tmp, AUTH_ENABLED, clock, last, procs>>

Procs == {"p1", "p2"}

\* What `last` records of a handled request: the request, the tenant it was
\* resolved to and the response
Last(req, uid, r) ==
  [req |-> req, uid |-> uid, status |-> r.status, loc |-> r.loc,
   dev |-> r.dev, list |-> r.list, devs |-> r.devs, count |-> r.count]

NoLast ==
  [req |-> NoReq, uid |-> Undef, status |-> 0, loc |-> NoLoc,
   dev |-> NoDev, list |-> <<>>, devs |-> <<>>, count |-> 0]

\* A request in flight: where its handler is suspended (pc), in readData or
\* in writeData (phase), the tenant resolved, the store it holds in memory,
\* the inode its writeFile has open (by the path that now names it), what
\* readFile returned (read) and the status it answered
IdleProc ==
  [pc |-> "idle", phase |-> "load", req |-> NoReq, cred |-> NoCred,
   uid |-> Undef, data |-> <<>>, fd |-> "none", read |-> "none", status |-> 0]

\* The store a durable file holds, as readData loads it
StoreOf(f) == Parse(ensureDataFile(f))

\* ------------------------------------------------- whole requests
\* The handler of lines 194-341 run to completion for one request.
\* maxLocs caps the locations the store may hold after the request.
Handle(cred, req, gid, maxLocs) ==
  LET a == requireAuth(AUTH_ENABLED, cred)
  IN /\ last = NoLast
     /\ AUTH_ENABLED' = a.auth
     /\ UNCHANGED <<tmp, clock, procs>>
     /\ IF ~a.ok
        THEN \* throw new Error('Unauthorized') -> catch -> 400
             /\ file' = file
             /\ last' = Last(req, Undef,
                             Result(<<>>, FALSE, 400, NoLoc, NoDev, <<>>, <<>>, 0))
        ELSE LET f1 == ensureDataFile(file)
                 data == getTenant(Parse(f1), a.uid)
                 r == Route(data, a.uid, req, clock, gid)
             IN /\ TotalLocs(r.data) <= maxLocs
                /\ file' = IF r.save THEN Serialize(r.data) ELSE f1
                /\ last' = Last(req, a.uid, r)

\* The response is delivered; the next request starts after it
Deliver ==
  /\ last # NoLast
  /\ last' = NoLast
  /\ UNCHANGED <<file, tmp, AUTH_ENABLED, clock, procs>>

\* Time passes between two requests
Tick ==
  /\ last = NoLast
  /\ clock < MaxClock
  /\ clock' = clock + 1
  /\ UNCHANGED <<file, tmp, AUTH_ENABLED, last, procs>>

\* After construction, on a fresh deployment: no durable file; AUTH_ENABLED is
\* !AUTH_DISABLED, or false when Firebase Admin failed to initialize
Init ==
  /\ file = Absent
  /\ tmp = Absent
  /\ AUTH_ENABLED \in BOOLEAN
  /\ clock = 0
  /\ last = NoLast
  /\ procs = [p \in Procs |-> IdleProc]

\* ------------------------------------------- Spec: the location routes
\* Clients of one tenant that store, list and delete locations; one tag is
\* registered so that ingest resolves.
LocCreds == {"u1"}

UpsertReqs ==
  { Req("upsert", id, "P1", Undef, Undef, Undef, Undef, Undef) :
      id \in {Undef, "a", genId(0, "r1")} }
  \cup { Req("upsert", "a", Undef, Undef, Undef, Undef, Undef, Undef),
         Req("upsert", "a", "P2", "home", "u2", Undef, Undef, Undef) }

LocIngestReqs ==
  { Req("ingest", Undef, Undef, Undef, Undef, "C1", Undef, Undef) }

LocRegisterReqs ==
  { Req("register", Undef, "P1", Undef, Undef, "C1", Undef, Undef) }

DeleteByIdReqs ==
  { Req("deleteById", id, Undef, Undef, Undef, Undef, Undef, Undef) :
      id \in {"a", genId(0, "r1")} }

DeleteByScopeReqs ==
  { Req("deleteByScope", Undef, petId, Undef, Undef, Undef, Undef, Undef) :
      petId \in {Null, "", "P1", "P2"} }

QueryReqs ==
  { Req("query", Undef, petId, Undef, Undef, Undef, Undef, Undef) :
      petId \in {"P1", "P2"} }

Query == \E cred \in LocCreds, req \in QueryReqs : Handle(cred, req, Undef, MaxLocs)

Upsert ==
  \E cred \in LocCreds, req \in UpsertReqs, rnd \in OneRnd :
    Handle(cred, req, genId(clock, rnd), MaxLocs)

Ingest ==
  \E cred \in LocCreds, req \in LocIngestReqs, rnd \in Rnd :
    Handle(cred, req, genId(clock, rnd), MaxLocs)

RegisterTag == \E cred \in LocCreds, req \in LocRegisterReqs : Handle(cred, req, Undef, MaxLocs)

DeleteById == \E cred \in LocCreds, req \in DeleteByIdReqs : Handle(cred, req, Undef, MaxLocs)

DeleteByScope == \E cred \in LocCreds, req \in DeleteByScopeReqs : Handle(cred, req, Undef, MaxLocs)

Next ==
  \/ Query
  \/ Upsert
  \/ Ingest
  \/ RegisterTag
  \/ DeleteById
  \/ DeleteByScope
  \/ Deliver
  \/ Tick

Spec == Init /\ [][Next]_vars

\* ---------------------------------------- SpecDev: the device routes
\* Clients of one tenant that register, detach and delete tags and ingest
\* a location through them, all within one reading of the clock.
RegisterReqs ==
  { Req("register", Undef, petId, Undef, Undef, code, deviceId, Undef) :
      petId \in {Undef, "P1", "P2"}, code \in {Undef, "C1"},
      deviceId \in {Undef, "D1"} }

IngestReqs ==
  { Req("ingest", Undef, Undef, Undef, Undef, code, deviceId, Undef) :
      code \in {Undef, "C1"}, deviceId \in {Undef, "D1"} }

DetachReqs ==
  { Req("detach", Undef, Undef, Undef, Undef, code, deviceId, Undef) :
      code \in {Undef, "C1"}, deviceId \in {Undef, "D1"} }

DeleteDeviceReqs ==
  { Req("deleteDevice", Undef, Undef, Undef, Undef, code, deviceId, Undef) :
      code \in {Undef, "C1"}, deviceId \in {Undef, "D1"} }

ListDevicesReqs ==
  { Req("listDevices", Undef, Undef, Undef, Undef, Undef, Undef, Undef) }

Register == \E cred \in LocCreds, req \in RegisterReqs : Handle(cred, req, Undef, MaxLocs)

IngestByTag ==
  \E cred \in LocCreds, req \in IngestReqs, rnd \in OneRnd :
    Handle(cred, req, genId(clock, rnd), MaxLocs)

Detach == \E cred \in LocCreds, req \in DetachReqs : Handle(cred, req, Undef, MaxLocs)

DeleteDevice == \E cred \in LocCreds, req \in DeleteDeviceReqs : Handle(cred, req, Undef, MaxLocs)

ListDevices == \E cred \in LocCreds, req \in ListDevicesReqs : Handle(cred, req, Undef, MaxLocs)

NextDev ==
  \/ Register
  \/ IngestByTag
  \/ Detach
  \/ DeleteDevice
  \/ ListDevices
  \/ Deliver

SpecDev == Init /\ [][NextDev]_vars

\* ------------------------------------- SpecTenants: several tenants
\* Clients with every kind of credential, each sending one request of every
\* route, all within one reading of the clock.
TenantReqs ==
  { Req("query", Undef, "P1", Undef, Undef, Undef, Undef, Undef),
    Req("upsert", "a", "P1", Undef, Undef, Undef, Undef, Undef),
    Req("upsert", Undef, "P1", Undef, "u2", Undef, Undef, Undef),
    Req("ingest", Undef, Undef, Undef, Undef, "C1", Undef, Undef),
    Req("register", Undef, "P1", Undef, Undef, "C1", Undef, Undef),
    Req("listDevices", Undef, Undef, Undef, Undef, Undef, Undef, Undef),
    Req("detach", Undef, Undef, Undef, Undef, "C1", Undef, Undef),
    Req("deleteDevice", Undef, Undef, Undef, Undef, "C1", Undef, Undef),
    Req("deleteById", "a", Undef, Undef, Undef, Undef, Undef, Undef),
    Req("deleteByScope", Undef, Null, Undef, Undef, Undef, Undef, Undef),
    Req("deleteByScope", Undef, "P1", Undef, Undef, Undef, Undef, Undef) }

Request ==
  \E cred \in Creds, req \in TenantReqs, rnd \in OneRnd :
    Handle(cred, req, genId(clock, rnd), MaxLocs)

NextTenants ==
  \/ Request
  \/ Deliver

SpecTenants == Init /\ [][NextTenants]_vars

\* ------------------------- SpecErrors: requests that may be refused
\* Clients of one tenant whose device, ingest and delete-by-id requests may
\* lack their keys or name records the tenant does not hold.
ErrorReqs ==
  RegisterReqs \cup IngestReqs \cup DetachReqs \cup DeleteDeviceReqs
    \cup DeleteByIdReqs
    \cup { Req("upsert", "a", "P1", Undef, Undef, Undef, Undef, Undef) }

RequestErrors ==
  \E cred \in LocCreds, req \in ErrorReqs, rnd \in OneRnd :
    Handle(cred, req, genId(clock, rnd), MaxLocs)

NextErrors ==
  \/ RequestErrors
  \/ Deliver

SpecErrors == Init /\ [][NextErrors]_vars

\* ------------------------- SpecLegacy: a file of the legacy shape
\* The server starts on a storage/locations.json left by the single-tenant
\* version: { locations: [...] }, its records without uid.
LegacyLocs ==
  { Loc("a", "P1", Undef, Undef, Undef, 0, NoTime),
    Loc("b", "P2", "home", Undef, Undef, 0, NoTime) }

LegacyLists ==
  {<<>>} \cup { <<l>> : l \in LegacyLocs }
         \cup { s \in LegacyLocs \X LegacyLocs : s[1] # s[2] }

LegacyCreds == {NoCred, "u1"}

InitLegacy ==
  /\ file \in { LegacyFile(locs) : locs \in LegacyLists }
  /\ tmp = Absent
  /\ AUTH_ENABLED \in BOOLEAN
  /\ clock = 0
  /\ last = NoLast
  /\ procs = [p \in Procs |-> IdleProc]

RequestLegacy ==
  \E cred \in LegacyCreds, req \in TenantReqs, rnd \in OneRnd :
    Handle(cred, req, genId(clock, rnd), MaxLocs + 1)

NextLegacy ==
  \/ RequestLegacy
  \/ Deliver

SpecLegacy == InitLegacy /\ [][NextLegacy]_vars

\* ------------------------------------ SpecConc: interleaved requests
\* Two requests, each suspended at the awaits of the handler: verifyIdToken,
\* fsp.access, fsp.writeFile (open, then the write), fsp.readFile, parseBody,
\* fsp.rename.  fsp.mkdir changes nothing and is part of the access step.
ConcCreds == {"u1", BadToken, NoCred}

ConcReqs ==
  { Req("upsert", "a", "P1", Undef, Undef, Undef, Undef, Undef),
    Req("upsert", "b", "P2", Undef, Undef, Undef, Undef, Undef),
    Req("register", Undef, "P1", Undef, Undef, "C1", Undef, Undef),
    Req("query", Undef, "P1", Undef, Undef, Undef, Undef, Undef) }

\* Routes that await parseBody(req) before they touch the tenant
HasBody(req) == req.op \in {"upsert", "ingest", "register", "detach", "deleteDevice"}

\* The content of an inode after a writeFile that opened it (truncating it)
\* writes text into it: an inode nobody has written since holds text; one
\* that another writer filled meanwhile is overwritten from offset 0, which
\* leaves text, or text followed by the tail of the longer old content
WriteOutcomes(old, text) ==
  IF old.kind = "partial" \/ old = text THEN {text} ELSE {text, Partial}

\* The request arrives: requireAuth up to its first await
Start(p) ==
  /\ procs[p].pc = "idle"
  /\ \E cred \in ConcCreds, req \in ConcReqs :
       procs' = [procs EXCEPT ![p] =
         IF ~AUTH_ENABLED
         THEN [@ EXCEPT !.pc = "access", !.req = req, !.cred = cred,
                        !.uid = DefaultTenant]
         ELSE IF cred = NoCred
         THEN [@ EXCEPT !.pc = "done", !.req = req, !.cred = cred, !.status = 400]
         ELSE [@ EXCEPT !.pc = "verify", !.req = req, !.cred = cred]]
  /\ UNCHANGED <<file, tmp, AUTH_ENABLED, clock, last>>

\* A verification that also sets the flag back after a token verified
VerifySettingFlag(p) ==
  /\ procs[p].pc = "verify"
  /\ LET a == requireAuth(TRUE, procs[p].cred)
     IN /\ AUTH_ENABLED' = a.auth
        /\ procs' = [procs EXCEPT ![p].pc = "access", ![p].uid = a.uid]
  /\ UNCHANGED <<file, tmp, clock, last>>

\* admin.auth().verifyIdToken(token) settles
Verify(p) ==
  /\ procs[p].pc = "verify"
  /\ LET a == requireAuth(TRUE, procs[p].cred)
     IN /\ AUTH_ENABLED' = (AUTH_ENABLED /\ a.auth)
        /\ procs' = [procs EXCEPT ![p].pc = "access", ![p].uid = a.uid]
  /\ UNCHANGED <<file, tmp, clock, last>>

\* ensureDataFile: fsp.access(DATA_FILE)
Access(p) ==
  /\ procs[p].pc = "access"
  /\ procs' = [procs EXCEPT ![p].pc =
       IF file.kind = "absent" THEN "create"
       ELSE IF procs[p].phase = "load" THEN "read" ELSE "tmpOpen"]
  /\ UNCHANGED <<file, tmp, AUTH_ENABLED, clock, last>>

\* ensureDataFile: fsp.writeFile(DATA_FILE, ...) opens the file, creating or
\* truncating it
CreateOpen(p) ==
  /\ procs[p].pc = "create"
  /\ file' = Partial
  /\ procs' = [procs EXCEPT ![p].pc = "createWrite", ![p].fd = "data"]
  /\ UNCHANGED <<tmp, AUTH_ENABLED, clock, last>>

\* ensureDataFile: the write of { locations: [] } lands in the opened inode
CreateWrite(p) ==
  /\ procs[p].pc = "createWrite"
  /\ IF procs[p].fd = "data"
     THEN file' \in WriteOutcomes(file, LegacyFile(<<>>))
     ELSE file' = file
  /\ procs' = [procs EXCEPT ![p].fd = "none", ![p].pc =
       IF procs[p].phase = "load" THEN "read" ELSE "tmpOpen"]
  /\ UNCHANGED <<tmp, AUTH_ENABLED, clock, last>>

\* What the handler does from the text read (or from the body) up to the
\* response or to the call of writeData
Dispatch(pr, data, gid) ==
  LET r == Route(data, pr.uid, pr.req, clock, gid)
  IN IF r.save
     THEN [pr EXCEPT !.pc = "access", !.phase = "save", !.data = r.data,
                     !.status = r.status]
     ELSE [pr EXCEPT !.pc = "done", !.data = <<>>, !.status = r.status]

\* readData: fsp.readFile(DATA_FILE), the parse, getTenant; a route without
\* a body runs on, one with a body awaits parseBody
Read(p) ==
  /\ procs[p].pc = "read"
  /\ LET data == getTenant(Parse(file), procs[p].uid)
         pr == [procs[p] EXCEPT
                  !.read = IF file.kind = "partial" THEN "partial" ELSE "complete"]
     IN \E rnd \in OneRnd :
          procs' = [procs EXCEPT ![p] =
            IF HasBody(pr.req) THEN [pr EXCEPT !.pc = "body", !.data = data]
            ELSE Dispatch(pr, data, genId(clock, rnd))]
  /\ UNCHANGED <<file, tmp, AUTH_ENABLED, clock, last>>

\* parseBody(req) settles and the route runs
Body(p) ==
  /\ procs[p].pc = "body"
  /\ \E rnd \in OneRnd :
       procs' = [procs EXCEPT ![p] =
         Dispatch(procs[p], procs[p].data, genId(clock, rnd))]
  /\ UNCHANGED <<file, tmp, AUTH_ENABLED, clock, last>>

\* writeData: fsp.writeFile(tmp, ...) opens the temporary file, creating or
\* truncating it
TmpOpen(p) ==
  /\ procs[p].pc = "tmpOpen"
  /\ tmp' = Partial
  /\ procs' = [procs EXCEPT ![p].pc = "tmpWrite", ![p].fd = "tmp"]
  /\ UNCHANGED <<file, AUTH_ENABLED, clock, last>>

\* writeData: the write of JSON.stringify(data) lands in the opened inode,
\* which a rename may have moved to DATA_FILE, or off every path, meanwhile
TmpWrite(p) ==
  /\ procs[p].pc = "tmpWrite"
  /\ LET text == Serialize(procs[p].data)
     IN CASE procs[p].fd = "tmp" ->
               /\ tmp' \in WriteOutcomes(tmp, text)
               /\ file' = file
          [] procs[p].fd = "data" ->
               /\ file' \in WriteOutcomes(file, text)
               /\ tmp' = tmp
          [] OTHER -> UNCHANGED <<file, tmp>>
  /\ procs' = [procs EXCEPT ![p].pc = "rename", ![p].fd = "none"]
  /\ UNCHANGED <<AUTH_ENABLED, clock, last>>

\* The inode an open writeFile holds, after rename(tmp, DATA_FILE)
Renamed(fd) ==
  CASE fd = "tmp" -> "data"
    [] fd = "data" -> "orphan"
    [] OTHER -> fd

\* A rename that keeps, for every tenant, the locations of the replaced file
\* that the new text does not hold
RenameMerging(p) ==
  /\ procs[p].pc = "rename"
  /\ IF tmp.kind = "absent"
     THEN /\ procs' = [procs EXCEPT ![p].pc = "done", ![p].status = 400]
          /\ UNCHANGED <<file, tmp>>
     ELSE /\ file' =
               LET new == Parse(tmp)
                   old == Parse(file)
                   Locs(d, u) == IF u \in DOMAIN d THEN d[u].locations ELSE <<>>
                   Devs(d, u) == IF u \in DOMAIN d THEN d[u].devices ELSE <<>>
                   Missing(u) ==
                     LET Keep(l) == \A i \in 1..Len(Locs(new, u)) :
                                      Locs(new, u)[i].id # l.id
                     IN SelectSeq(Locs(old, u), Keep)
               IN Serialize([u \in DOMAIN new \cup DOMAIN old |->
                    [locations |-> Locs(new, u) \o Missing(u),
                     devices |-> IF u \in DOMAIN new THEN Devs(new, u)
                                 ELSE Devs(old, u)]])
          /\ tmp' = Absent
          /\ procs' = [q \in Procs |->
               IF q = p THEN [procs[q] EXCEPT !.pc = "done"]
               ELSE [procs[q] EXCEPT !.fd = "none"]]
  /\ UNCHANGED <<AUTH_ENABLED, clock, last>>

\* writeData: fsp.rename(tmp, DATA_FILE), then the response; ENOENT when
\* another request's rename took the temporary file away
Rename(p) ==
  /\ procs[p].pc = "rename"
  /\ IF tmp.kind = "absent"
     THEN /\ procs' = [procs EXCEPT ![p].pc = "done", ![p].status = 400]
          /\ UNCHANGED <<file, tmp>>
     ELSE /\ file' = tmp
          /\ tmp' = Absent
          /\ procs' = [q \in Procs |->
               IF q = p THEN [procs[q] EXCEPT !.pc = "done"]
               ELSE [procs[q] EXCEPT !.fd = Renamed(@)]]
  /\ UNCHANGED <<AUTH_ENABLED, clock, last>>

NextConc ==
  \E p \in Procs :
    \/ Start(p)
    \/ Verify(p)
    \/ Access(p)
    \/ CreateOpen(p)
    \/ CreateWrite(p)
    \/ Read(p)
    \/ Body(p)
    \/ TmpOpen(p)
    \/ TmpWrite(p)
    \/ Rename(p)

SpecConc == Init /\ [][NextConc]_vars

\* ------------------------------- SpecSave: a save that may fail
\* One request at a time, step by step as in SpecConc; the file system may
\* reject the writeFile or the rename of writeData, the rejection is thrown
\* to the handler's catch, which answers 400.
SaveProcs == {"p1"}

\* fsp.writeFile(tmp, ...) rejects when it opens the temporary file
TmpOpenFails(p) ==
  /\ procs[p].pc = "tmpOpen"
  /\ procs' = [procs EXCEPT ![p].pc = "done", ![p].status = 400]
  /\ UNCHANGED <<file, tmp, AUTH_ENABLED, clock, last>>

\* A writeData that swallows the rejection of the write and answers as if
\* the save had completed
TmpWriteFailsSilently(p) ==
  /\ procs[p].pc = "tmpWrite"
  /\ procs' = [procs EXCEPT ![p].pc = "done", ![p].fd = "none"]
  /\ UNCHANGED <<file, tmp, AUTH_ENABLED, clock, last>>

\* fsp.writeFile(tmp, ...) rejects during the write: the temporary file
\* stays partially written
TmpWriteFails(p) ==
  /\ procs[p].pc = "tmpWrite"
  /\ procs' = [procs EXCEPT ![p].pc = "done", ![p].fd = "none",
                            ![p].status = 400]
  /\ UNCHANGED <<file, tmp, AUTH_ENABLED, clock, last>>

\* fsp.rename(tmp, DATA_FILE) rejects: both files stay as they are
RenameFails(p) ==
  /\ procs[p].pc = "rename"
  /\ procs' = [procs EXCEPT ![p].pc = "done", ![p].status = 400]
  /\ UNCHANGED <<file, tmp, AUTH_ENABLED, clock, last>>

\* The response has been sent; the handler invocation is over
Finish(p) ==
  /\ procs[p].pc = "done"
  /\ procs' = [procs EXCEPT ![p] = IdleProc]
  /\ UNCHANGED <<file, tmp, AUTH_ENABLED, clock, last>>

NextSave ==
  \E p \in SaveProcs :
    \/ Start(p)
    \/ Verify(p)
    \/ Access(p)
    \/ CreateOpen(p)
    \/ CreateWrite(p)
    \/ Read(p)
    \/ Body(p)
    \/ TmpOpen(p)
    \/ TmpOpenFails(p)
    \/ TmpWrite(p)
    \/ TmpWriteFails(p)
    \/ Rename(p)
    \/ RenameFails(p)
    \/ Finish(p)

SpecSave == Init /\ [][NextSave]_vars

\* ================================================================ claims
\* The locations and devices a durable file holds for tenant u
TenantView(f, u) ==
  IF u \in DOMAIN StoreOf(f) THEN StoreOf(f)[u] ELSE EmptyTenant

Range(seq) == { seq[i] : i \in 1..Len(seq) }

\* A request was handled by this step
Handled == last = NoLast /\ last' # NoLast

\* C1: Tenant isolation, sequential case.  A request handled to completion
\* leaves the locations and devices of every tenant other than the one it was
\* resolved to exactly as the durable file held them (a request that was not
\* resolved to any tenant leaves all of them), and the lists it returns
\* hold only records stored under its own tenant.
C1_TenantIsolation ==
  [][Handled =>
       /\ \A B \in TenantIds \ {last'.uid} :
            TenantView(file', B) = TenantView(file, B)
       /\ last'.uid # Undef =>
            /\ Range(last'.list) \subseteq Range(TenantView(file', last'.uid).locations)
            /\ Range(last'.devs) \subseteq Range(TenantView(file', last'.uid).devices)]_vars

\* C1 witness: a tenant's upsert was saved while another tenant holds a
\* location and a device
C1_Witness ==
  /\ last.req.op = "upsert"
  /\ last.status = 201
  /\ \E B \in TenantIds \ {last.uid} :
       /\ Len(TenantView(file, B).locations) > 0
       /\ Len(TenantView(file, B).devices) > 0

\* What a finished request of SpecConc changed is in the durable file
ChangeKept(pr) ==
  CASE pr.req.op = "upsert" ->
         \E l \in Range(TenantView(file, pr.uid).locations) : l.id = pr.req.id
    [] pr.req.op = "register" ->
         \E d \in Range(TenantView(file, pr.uid).devices) : d.code = pr.req.code
    [] OTHER -> TRUE

Succeeded(pr) == pr.pc = "done" /\ pr.status \in {200, 201}

\* A finished request of SpecConc went through load, mutate and save
Saved(pr) == Succeeded(pr) /\ pr.phase = "save"

\* C2: Tenant isolation under interleaving.  Once two interleaved
\* load->mutate->save cycles of different tenants have both reported success,
\* the durable store holds the change of each.
C2_BothTenantsChangesKept ==
  \A p, q \in Procs :
    (/\ p # q
     /\ Saved(procs[p]) /\ Saved(procs[q])
     /\ procs[p].uid # procs[q].uid)
    => ChangeKept(procs[p]) /\ ChangeKept(procs[q])

\* C3: Location id uniqueness.  No two locations of a tenant in the durable
\* store have the same id.
C3_LocationIdsUnique ==
  \A u \in DOMAIN StoreOf(file) :
    LET locs == StoreOf(file)[u].locations
    IN \A i, j \in 1..Len(locs) : i # j => locs[i].id # locs[j].id

\* C4: Device key uniqueness.  At most one device of a tenant has a given
\* code and at most one has a given deviceId.
C4_DeviceKeysUnique ==
  \A u \in DOMAIN StoreOf(file) :
    LET devs == StoreOf(file)[u].devices
    IN \A i, j \in 1..Len(devs) :
         i # j =>
           /\ ~(Truthy(devs[i].code) /\ devs[i].code = devs[j].code)
           /\ ~(Truthy(devs[i].deviceId) /\ devs[i].deviceId = devs[j].deviceId)

\* C5: Atomic save.  No readFile of the durable file returns a partially
\* written text.
C5_NoPartialRead ==
  \A p \in Procs : procs[p].read # "partial"

\* Two finished upserts of one tenant, under different ids, each of which
\* loaded the store before the other's location was in it
BothLoadedBefore(p, q) ==
  /\ p # q
  /\ Saved(procs[p]) /\ Saved(procs[q])
  /\ procs[p].req.op = "upsert" /\ procs[q].req.op = "upsert"
  /\ procs[p].uid = procs[q].uid
  /\ procs[p].req.id # procs[q].req.id
  /\ \A l \in Range(procs[p].data[procs[p].uid].locations) : l.id # procs[q].req.id
  /\ \A l \in Range(procs[q].data[procs[q].uid].locations) : l.id # procs[p].req.id

\* C6: Lost update on the same tenant.  When two load->mutate->save cycles
\* on one tenant both loaded the pre-mutation state and both reported
\* success, the durable store does not hold both writers' changes.
C6_LostUpdate ==
  \A p, q \in Procs :
    BothLoadedBefore(p, q) => ~(ChangeKept(procs[p]) /\ ChangeKept(procs[q]))

\* C6 witness: the lost update is reached; the durable file is the complete
\* text of the second save and the first writer's location is not in it
C6_Witness ==
  \E p, q \in Procs :
    /\ BothLoadedBefore(p, q)
    /\ file = Serialize(procs[q].data)
    /\ ChangeKept(procs[q])
    /\ ~ChangeKept(procs[p])

\* The store a request resolved to tenant u loads from the durable file
Loaded(f, u) == getTenant(StoreOf(f), u)

\* C7: Idempotent upsert.  An upsert under an id creates (201) when the id
\* was absent; the same upsert called again is an update (200), does not
\* grow the tenant's locations and leaves exactly one location with the id.
C7_IdempotentUpsert ==
  [][(Handled /\ last'.req.op = "upsert" /\ Truthy(last'.req.id)) =>
       LET T == last'.uid
           id == last'.req.id
           data == Loaded(file', T)
           again == upsert(data, T, last'.req, clock, Undef)
           locs == again.data[T].locations
       IN /\ FirstLoc(TenantView(file, T).locations, id) = 0 => last'.status = 201
          /\ again.status = 200
          /\ Len(locs) = Len(data[T].locations)
          /\ Cardinality({ i \in 1..Len(locs) : locs[i].id = id }) = 1]_vars

\* An upsert was answered with success: what a following query of its petId
\* under the same tenant returns, after reloading the durable file
QueryAfter ==
  query(Loaded(file, last.uid), last.uid,
        Req("query", Undef, last.req.petId, Undef, Undef, Undef, Undef, Undef)).list

UpsertDone ==
  /\ last.req.op = "upsert"
  /\ last.status \in {200, 201}
  /\ Truthy(last.req.petId)

\* C8 as stated: the query returns a location whose id and every
\* payload-supplied field, uid included, equal the upserted values.
C8_RoundTripAllFields ==
  UpsertDone =>
    \E l \in Range(QueryAfter) :
      /\ l.id = last.loc.id
      /\ Truthy(last.req.id) => l.id = last.req.id
      /\ l.petId = last.req.petId
      /\ last.req.label # Undef => l.label = last.req.label
      /\ last.req.uid # Undef => l.uid = last.req.uid

\* C8: Upsert round-trip.  After a successful upsert of a record with petId
\* p under tenant T, query(T, p) on the reloaded store returns a location
\* whose id, petId and every other payload-supplied field except uid equal
\* the upserted values; its uid is T.
C8_RoundTrip ==
  UpsertDone =>
    \E l \in Range(QueryAfter) :
      /\ l.id = last.loc.id
      /\ Truthy(last.req.id) => l.id = last.req.id
      /\ l.petId = last.req.petId
      /\ last.req.label # Undef => l.label = last.req.label
      /\ l.uid = last.uid

\* C8 witness: an update whose payload carries a label and another
\* tenant's uid was saved over a location of another pet
C8_Witness ==
  /\ UpsertDone
  /\ last.status = 200
  /\ last.req.uid = "u2"
  /\ last.req.label = "home"
  /\ Len(Loaded(file, last.uid)[last.uid].locations) = 2

\* What ingest answers for a tag key on the reloaded store
IngestAfter(code, deviceId) ==
  ingest(Loaded(file, last.uid), last.uid,
         Req("ingest", Undef, Undef, Undef, Undef, code, deviceId, Undef),
         clock, genId(clock, "r1"))

\* resolveOwner and ingest for a tag key give the pet
ResolvesTo(code, deviceId, petId) ==
  /\ resolvePetIdByIdentifier(Loaded(file, last.uid)[last.uid], code, deviceId) = petId
  /\ IngestAfter(code, deviceId).status = 201
  /\ IngestAfter(code, deviceId).loc.petId = petId

\* resolveOwner gives nothing for a tag key and ingest answers not found
Unresolved(code, deviceId) ==
  /\ ~Truthy(resolvePetIdByIdentifier(Loaded(file, last.uid)[last.uid], code, deviceId))
  /\ IngestAfter(code, deviceId).status = 404

\* C9: Device resolution.  After a successful register of petId P under a
\* code or a deviceId, resolveOwner by that key returns P and ingest by it
\* stores a location of P; after a successful detach by a code or by a
\* deviceId, resolveOwner by that key returns nothing and ingest by it is
\* answered not found.
C9_DeviceResolution ==
  /\ (last.req.op = "register" /\ last.status = 201) =>
       /\ Truthy(last.req.code) => ResolvesTo(last.req.code, Undef, last.req.petId)
       /\ Truthy(last.req.deviceId) => ResolvesTo(Undef, last.req.deviceId, last.req.petId)
  /\ (last.req.op = "detach" /\ last.status = 200) =>
       /\ (Truthy(last.req.code) /\ ~Truthy(last.req.deviceId)) =>
            Unresolved(last.req.code, Undef)
       /\ (Truthy(last.req.deviceId) /\ ~Truthy(last.req.code)) =>
            Unresolved(Undef, last.req.deviceId)

\* C9 witness: a tag registered under a deviceId was detached by it while
\* the tenant holds another tag
C9_Witness ==
  /\ last.req.op = "detach"
  /\ last.status = 200
  /\ last.req.deviceId = "D1"
  /\ last.req.code = Undef
  /\ Len(Loaded(file, last.uid)[last.uid].devices) = 2
  /\ Unresolved(Undef, "D1")

\* C10: Scoped delete.  deleteByScope with a petId removes exactly the
\* tenant's locations whose petId string-equals it and keeps the others in
\* order; with petId omitted it removes all; it answers the number removed
\* and leaves the tenant's devices unchanged.
C10_ScopedDelete ==
  [][(Handled /\ last'.req.op = "deleteByScope") =>
       LET before == TenantView(file, last'.uid)
           after == TenantView(file', last'.uid)
       IN /\ after.locations =
               IF last'.req.petId = Null THEN <<>>
               ELSE LocsNotOfPet(before.locations, last'.req.petId)
          /\ last'.count = Len(before.locations) - Len(after.locations)
          /\ after.devices = before.devices]_vars

\* C11: Ingest resolution failure.  An ingest that names a code or a deviceId
\* is answered not found and leaves the store of every tenant as it was
\* whenever no device of its tenant matches or the first matching device in
\* store order is detached; otherwise it succeeds, and the location it
\* appends to its tenant carries the petId of that first matching device.
C11_IngestResolution ==
  [][(/\ Handled
      /\ last'.req.op = "ingest"
      /\ Truthy(last'.req.code) \/ Truthy(last'.req.deviceId)) =>
       LET T == last'.uid
           before == TenantView(file, T)
           after == TenantView(file', T)
           idx == FirstDev(before.devices, last'.req.code, last'.req.deviceId)
       IN IF idx = 0 \/ before.devices[idx].petId = Null
          THEN /\ last'.status = 404
               /\ StoreOf(file') = StoreOf(file)
          ELSE /\ last'.status = 201
               /\ last'.loc.petId = before.devices[idx].petId
               /\ after.locations = Append(before.locations, last'.loc)]_vars

\* C11 witness: an ingest was answered not found because the first device
\* matching its code is detached, while a later device with that code has a pet
C11_Witness ==
  /\ last.req.op = "ingest"
  /\ last.status = 404
  /\ LET devs == TenantView(file, last.uid).devices
     IN /\ Len(devs) = 2
        /\ devs[1].code = last.req.code
        /\ devs[1].petId = Null
        /\ devs[2].code = last.req.code
        /\ Truthy(devs[2].petId)

\* C12: Legacy migration.  Loading a durable file of the legacy shape yields
\* exactly one tenant, "default", with the file's locations unchanged and no
\* devices (a query of the default tenant lists them); a request that does
\* not save leaves the file as it was; the first save writes the
\* multi-tenant shape, in which "default" still holds those locations: all
\* of them, with no devices, when the request belongs to another tenant,
\* and every one but the location the request itself rewrote or deleted
\* when it belongs to "default".
C12_LegacyMigration ==
  [][(Handled /\ file.kind = "legacy" /\ last'.uid # Undef) =>
       LET store == Parse(file)
           T == last'.uid
           op == last'.req.op
           saved == op \notin {"query", "listDevices"} /\ last'.status \in {200, 201}
       IN /\ DOMAIN store = {DefaultTenant}
          /\ store[DefaultTenant] = [locations |-> file.locations, devices |-> <<>>]
          /\ (op = "query" /\ T = DefaultTenant) =>
               last'.list = LocsOfPet(file.locations, last'.req.petId)
          /\ ~saved => file' = file
          /\ saved =>
               /\ file'.kind = "tenants"
               /\ DefaultTenant \in DOMAIN file'.tenants
               /\ T # DefaultTenant =>
                    file'.tenants[DefaultTenant] =
                      [locations |-> file.locations, devices |-> <<>>]
               /\ (T = DefaultTenant /\ op \in {"upsert", "ingest", "register"}) =>
                    \A i \in 1..Len(file.locations) :
                      file.locations[i].id # last'.loc.id =>
                        file'.tenants[DefaultTenant].locations[i] = file.locations[i]]_vars

\* C12 witness: another tenant's upsert was the first save over a legacy
\* file of two locations
C12_Witness ==
  /\ last.req.op = "upsert"
  /\ last.status = 201
  /\ last.uid = "u1"
  /\ file.kind = "tenants"
  /\ DOMAIN file.tenants = {DefaultTenant, "u1"}
  /\ Len(file.tenants[DefaultTenant].locations) = 2
  /\ \A l \in Range(file.tenants[DefaultTenant].locations) : l.uid = Undef
  /\ Len(file.tenants["u1"].locations) = 1

\* The request handled lacks what its route requires (ValidationError)
Invalid(req) ==
  \/ /\ req.op \in {"ingest", "detach", "deleteDevice"}
     /\ ~Truthy(req.code) /\ ~Truthy(req.deviceId)
  \/ /\ req.op = "register"
     /\ ~Truthy(req.petId) \/ (~Truthy(req.code) /\ ~Truthy(req.deviceId))

\* The valid request handled names nothing the tenant holds (NotFoundError)
NotFound(req, tenant) ==
  LET idx == FirstDev(tenant.devices, req.code, req.deviceId)
  IN \/ req.op = "ingest" /\ (idx = 0 \/ ~Truthy(tenant.devices[idx].petId))
     \/ req.op \in {"detach", "deleteDevice"} /\ idx = 0
     \/ req.op = "deleteById" /\ FirstLoc(tenant.locations, req.id) = 0

\* C13: No mutation on validation or not-found failure.  A request refused
\* for a missing key (400) or for naming no record of its tenant (404)
\* leaves the content of the durable store as it was, and an existing
\* durable file untouched.
C13_NoMutationOnFailure ==
  [][(Handled /\ last'.uid # Undef) =>
       LET req == last'.req
           failed == Invalid(req) \/ NotFound(req, TenantView(file, last'.uid))
       IN /\ Invalid(req) => last'.status = 400
          /\ (~Invalid(req) /\ NotFound(req, TenantView(file, last'.uid))) =>
               last'.status = 404
          /\ ~failed => last'.status \in {200, 201}
          /\ failed =>
               /\ StoreOf(file') = StoreOf(file)
               /\ file.kind # "absent" => file' = file]_vars

\* C13 witness: a delete by id was answered not found while the tenant
\* holds a location and a device
C13_Witness ==
  /\ last.req.op = "deleteById"
  /\ last.status = 404
  /\ Len(TenantView(file, last.uid).locations) > 0
  /\ Len(TenantView(file, last.uid).devices) > 0

\* The step in which writeData of request p is rejected
SaveFailed(p) ==
  /\ procs[p].pc \in {"tmpOpen", "tmpWrite", "rename"}
  /\ procs'[p].pc = "done"
  /\ procs[p].pc = "rename" => tmp' # Absent

\* The step in which a request that called writeData answers with success
SuccessSent(p) ==
  /\ procs[p].phase = "save"
  /\ procs[p].pc # "done"
  /\ procs'[p].pc = "done"
  /\ procs'[p].status \in {200, 201}

\* C14: Save failure is surfaced.  A mutating request answers with success
\* only in the step that completes the rename, after which the durable file
\* is the text it saved; when the write of the temporary file or the rename
\* is rejected the request answers with a failure, and the durable file
\* keeps its content.
C14_SaveFailureSurfaced ==
  [][\A p \in SaveProcs :
       /\ SuccessSent(p) =>
            /\ procs[p].pc = "rename"
            /\ file' = Serialize(procs[p].data)
            /\ tmp' = Absent
       /\ SaveFailed(p) =>
            /\ procs'[p].status = 400
            /\ file' = file
       /\ (procs[p].phase = "save" /\ file' # file) => SuccessSent(p)]_vars

\* C14 witness: the rename of a request's save was rejected and answered
\* 400 while the durable file holds an earlier save, without the request's
\* change
C14_Witness ==
  /\ procs["p1"].pc = "done"
  /\ procs["p1"].phase = "save"
  /\ procs["p1"].status = 400
  /\ procs["p1"].req.op = "upsert"
  /\ tmp = Serialize(procs["p1"].data)
  /\ file.kind = "tenants"
  /\ file # tmp
  /\ ~ChangeKept(procs["p1"])

\* The flag changes only from enabled to disabled, in the step in which the
\* verification of a request's token fails
FlagOneWay ==
  AUTH_ENABLED' # AUTH_ENABLED =>
    /\ AUTH_ENABLED /\ ~AUTH_ENABLED'
    /\ \E p \in Procs :
         /\ procs[p].pc = "verify" /\ procs[p].cred = BadToken
         /\ procs'[p].uid = DefaultTenant

\* Request p arrives: while the flag is disabled it is resolved to "default"
\* whatever its credentials; while it is enabled a request without a bearer
\* credential is answered 400 on the spot, the store untouched, and one
\* with a token goes to its verification
Arrival(p) ==
  (procs[p].pc = "idle" /\ procs'[p].pc # "idle") =>
    /\ ~AUTH_ENABLED =>
         procs'[p].uid = DefaultTenant /\ procs'[p].pc = "access"
    /\ (AUTH_ENABLED /\ procs'[p].cred = NoCred) =>
         /\ procs'[p].pc = "done" /\ procs'[p].status = 400
         /\ procs'[p].uid = Undef
         /\ file' = file /\ tmp' = tmp
    /\ (AUTH_ENABLED /\ procs'[p].cred # NoCred) =>
         procs'[p].pc = "verify" /\ procs'[p].uid = Undef

\* A request rejected for its missing credential takes no further step
RejectedStays(p) ==
  (procs[p].pc = "done" /\ procs[p].uid = Undef) => procs'[p] = procs[p]

\* The tenant of request p is resolved in this step
Resolved(p) == procs[p].uid = Undef /\ procs'[p].uid # Undef

Merged(incoming, old) == IF incoming # Undef THEN incoming ELSE old

\* C16: Register is a field merge.  A register that matches a device of its
\* tenant by code or deviceId leaves the number of devices unchanged and
\* the other devices as they were; the matched record takes the payload's
\* supplied fields, keeps every field the payload did not supply and its
\* createdAt, and has updatedAt refreshed.  A register that matches nothing
\* appends exactly one device, with createdAt set.
C16_RegisterMerges ==
  [][(Handled /\ last'.req.op = "register" /\ last'.status = 201) =>
       LET req == last'.req
           before == TenantView(file, last'.uid).devices
           after == TenantView(file', last'.uid).devices
           idx == FirstDev(before, req.code, req.deviceId)
       IN IF idx > 0
          THEN /\ Len(after) = Len(before)
               /\ \A i \in 1..Len(before) : i # idx => after[i] = before[i]
               /\ after[idx] =
                    Dev(req.petId,
                        Merged(req.code, before[idx].code),
                        Merged(req.deviceId, before[idx].deviceId),
                        Merged(req.name, before[idx].name),
                        before[idx].createdAt, clock)
          ELSE /\ Len(after) = Len(before) + 1
               /\ SubSeq(after, 1, Len(before)) = before
               /\ after[Len(after)] =
                    Dev(req.petId, req.code, req.deviceId, req.name, clock, clock)]_vars

\* C17: Register returns the stored record.  The device a successful
\* register answers with is field for field, createdAt included, a record
\* of the tenant's device list after the operation.
C17_RegisterReturnsStored ==
  (last.req.op = "register" /\ last.status = 201) =>
    last.dev \in Range(TenantView(file, last.uid).devices)

\* The tenants a durable file holds; none when there is no file
TenantsIn(f) == IF f.kind = "absent" THEN {} ELSE DOMAIN Parse(f)

\* C18: Empty initial store.  When no durable file exists, the load of the
\* first request creates it with the empty multi-tenant structure
\* { tenants: {} } and returns a store with no tenants; a tenant is in the
\* durable store only once a request resolved to it has referenced it.
C18_EmptyInitialStore ==
  [][(Handled /\ last'.uid # Undef) =>
       /\ file.kind = "absent" =>
            /\ ensureDataFile(file) = Serialize(<<>>)
            /\ Parse(ensureDataFile(file)) = <<>>
            /\ last'.status \notin {200, 201} => file' = Serialize(<<>>)
       /\ TenantsIn(file') \subseteq TenantsIn(file) \cup {last'.uid}]_vars

\* C19: petId required.  Every location in the durable store has a
\* non-empty petId, and an upsert answered with success stored a location
\* that has one.
C19_PetIdRequired ==
  /\ \A u \in DOMAIN StoreOf(file) :
       \A l \in Range(StoreOf(file)[u].locations) : Truthy(l.petId)
  /\ (last.req.op = "upsert" /\ last.status \in {200, 201}) => Truthy(last.loc.petId)

\* Every location the durable file f holds under a tenant has that
\* tenant as its uid
UidIsTenant(f) ==
  \A u \in DOMAIN StoreOf(f) :
    \A l \in Range(StoreOf(f)[u].locations) : l.uid = u

\* C20: Forced tenant assignment.  After every request every location
\* stored under a tenant T has uid = T, whatever uid the payloads carried,
\* and an upsert or ingest changes no record of a tenant other than the one
\* it was resolved to, the one its payload names included.
C20_ForcedTenant ==
  [][/\ UidIsTenant(file')
     /\ (Handled /\ last'.req.op \in {"upsert", "ingest"}) =>
          /\ last'.status = 201 => last'.loc.uid = last'.uid
          /\ \A B \in TenantIds \ {last'.uid} :
               TenantView(file', B) = TenantView(file, B)]_vars

\* C20 witness: tenant u1 created a location from a payload that names
\* uid u2, while u2 holds a location of its own
C20_Witness ==
  /\ last.req.op = "upsert"
  /\ last.req.uid = "u2"
  /\ last.uid = "u1"
  /\ last.status = 201
  /\ last.loc \in Range(TenantView(file, "u1").locations)
  /\ Len(TenantView(file, "u2").locations) > 0

\* C21: Ingest is append-only.  A successful ingest under tenant T makes T's
\* locations one longer: the new location, with origin "device", is the
\* last one, every location stored before keeps its place and its fields
\* (one that carries the id generated for the new location included), and
\* T's devices are as they were.
C21_IngestAppendOnly ==
  [][(/\ Handled
      /\ last'.req.op = "ingest"
      /\ last'.status = 201) =>
       LET T == last'.uid
           before == TenantView(file, T)
           after == TenantView(file', T)
           n == Len(before.locations)
       IN /\ Len(after.locations) = n + 1
          /\ after.locations[n + 1] = last'.loc
          /\ last'.loc.origin = "device"
          /\ \A i \in 1..n : after.locations[i] = before.locations[i]
          /\ after.devices = before.devices]_vars

\* C21 witness: an ingest succeeded while its tenant already held a
\* different location with the id generated for the new one; both are stored
C21_Witness ==
  /\ last.req.op = "ingest"
  /\ last.status = 201
  /\ LET locs == TenantView(file, last.uid).locations
     IN /\ Len(locs) = 2
        /\ locs[2] = last.loc
        /\ locs[1].id = last.loc.id
        /\ locs[1] # last.loc

====
